---- MODULE Spec2Model ----
(***************************************************************************)
(* Model of the trace_id crate: identifier generation (TraceId::new),      *)
(* validation (TraceId::from_string_validated) and the task-local context  *)
(* (get_trace_id / with_trace_id).                                         *)
(*                                                                         *)
(* Machine words are sequences of hexadecimal digits (nibbles), most       *)
(* significant first, so that the 48/64/128-bit fields keep their width.   *)
(* Strings are sequences of code points; str::len and as_bytes see their   *)
(* UTF-8 encoding.                                                         *)
(***************************************************************************)
EXTENDS Integers, Sequences, FiniteSets, TLC

(***************************************************************************)
(* Bounds of the model.                                                    *)
(***************************************************************************)
\* number of TraceId::new calls explored in one behaviour
MaxGen == 2
\* threads that call into the crate (the runtime's workers)
NumThreads == 2
\* tasks the runtime schedules
NumTasks == 2
\* nesting depth of with_trace_id scopes in one task
MaxDepth == 2
\* input lengths explored around the required length are 32-LenSlack..32+LenSlack
LenSlack == 1

(***************************************************************************)
(* Option<T>                                                               *)
(***************************************************************************)
None == [some |-> FALSE]
Some(x) == [some |-> TRUE, val |-> x]

(***************************************************************************)
(* Fixed-width unsigned words as nibble sequences.                         *)
(***************************************************************************)
Nibble == 0..15

Zero(n) == [i \in 1..n |-> 0]

\* the nibbles of a word with all bits set: 0xFFFF, 0xFFFFFFFF, ...
Ones(n) == [i \in 1..n |-> 15]

\* x as a narrower unsigned type: keeps the low n nibbles
Truncate(w, n) == [i \in 1..n |-> w[Len(w) - n + i]]

\* x as a wider unsigned type: zero extension to n nibbles
Widen(w, n) == [i \in 1..n |-> IF i <= n - Len(w) THEN 0 ELSE w[i - (n - Len(w))]]

Bit(x, k) == (x \div (2 ^ k)) % 2

And4(a, b) == Bit(a, 0) * Bit(b, 0) + 2 * (Bit(a, 1) * Bit(b, 1))
              + 4 * (Bit(a, 2) * Bit(b, 2)) + 8 * (Bit(a, 3) * Bit(b, 3))

Or4(a, b) == (Bit(a, 0) + Bit(b, 0) - Bit(a, 0) * Bit(b, 0))
             + 2 * (Bit(a, 1) + Bit(b, 1) - Bit(a, 1) * Bit(b, 1))
             + 4 * (Bit(a, 2) + Bit(b, 2) - Bit(a, 2) * Bit(b, 2))
             + 8 * (Bit(a, 3) + Bit(b, 3) - Bit(a, 3) * Bit(b, 3))

Xor4(a, b) == ((Bit(a, 0) + Bit(b, 0)) % 2)
              + 2 * ((Bit(a, 1) + Bit(b, 1)) % 2)
              + 4 * ((Bit(a, 2) + Bit(b, 2)) % 2)
              + 8 * ((Bit(a, 3) + Bit(b, 3)) % 2)

\* x & y, x | y, x ^ y on words of equal width
WordAnd(x, y) == [i \in 1..Len(x) |-> And4(x[i], y[i])]
WordOr(x, y) == [i \in 1..Len(x) |-> Or4(x[i], y[i])]
WordXor(x, y) == [i \in 1..Len(x) |-> Xor4(x[i], y[i])]

\* x << (4*k) on a fixed-width word: the top k nibbles fall off
ShiftLeft(w, k) == [i \in 1..Len(w) |-> IF i + k <= Len(w) THEN w[i + k] ELSE 0]

\* wrapping x + 1 on a fixed-width word
WrappingInc(w) ==
  LET notF == {i \in 1..Len(w) : w[i] # 15}
      k == IF notF = {} THEN 0 ELSE CHOOSE i \in notF : \A j \in notF : j <= i
  IN [i \in 1..Len(w) |-> IF i < k THEN w[i] ELSE IF i = k THEN w[i] + 1 ELSE 0]

\* the borrow that the digits below position i ask of digit i in x - y
RECURSIVE Borrow(_, _, _)
Borrow(x, y, i) ==
  IF i = Len(x) THEN 0
  ELSE IF x[i + 1] - Borrow(x, y, i + 1) < y[i + 1] THEN 1 ELSE 0

\* wrapping x - y on fixed-width words of equal width
WrappingSub(x, y) ==
  [i \in 1..Len(x) |-> (x[i] - y[i] - Borrow(x, y, i) + 16) % 16]

(***************************************************************************)
(* Bytes and formatting.                                                   *)
(***************************************************************************)
\* b'0' + n for n < 10, b'a' + n - 10 otherwise
HexDigit(n) == IF n < 10 THEN 48 + n ELSE 87 + n

\* the digits the {:x} formatter emits: no leading zeros, at least one digit
SignificantDigits(w) ==
  LET nz == {i \in 1..Len(w) : w[i] # 0}
      first == IF nz = {} THEN Len(w) ELSE CHOOSE i \in nz : \A j \in nz : i <= j
  IN [i \in 1..(Len(w) - first + 1) |-> HexDigit(w[first + i - 1])]

\* zero fill to a minimum width: a longer text is left as it is
ZeroPad(s, width) ==
  IF Len(s) >= width THEN s
  ELSE [i \in 1..(width - Len(s)) |-> 48] \o s

\* format!("{w:016x}")
LowerHex016(w) == ZeroPad(SignificantDigits(w), 16)

(***************************************************************************)
(* Strings: sequences of Unicode code points; as_bytes is their UTF-8      *)
(* encoding, and str::len is the length of that encoding.                  *)
(***************************************************************************)
Utf8(cp) ==
  IF cp < 128 THEN <<cp>>
  ELSE IF cp < 2048 THEN <<192 + (cp \div 64), 128 + (cp % 64)>>
  ELSE <<224 + (cp \div 4096), 128 + ((cp \div 64) % 64), 128 + (cp % 64)>>

RECURSIVE as_bytes(_)
as_bytes(s) == IF s = <<>> THEN <<>> ELSE Utf8(Head(s)) \o as_bytes(Tail(s))

\* str::len
len(s) == Len(as_bytes(s))

\* the literal "00000000000000000000000000000000"
AllZeroLiteral == [i \in 1..32 |-> 48]

(***************************************************************************)
(* struct TraceId(String)                                                  *)
(***************************************************************************)
TraceIdOf(s) == <<s>>

as_str(id) == id[1]

\* a variant that takes u8::is_ascii_hexdigit for the test: upper case passes
is_valid_hex_bytes_anycase(bytes) ==
  \A i \in 1..Len(bytes) :
    \/ (bytes[i] >= 48 /\ bytes[i] <= 57)
    \/ (bytes[i] >= 97 /\ bytes[i] <= 102)
    \/ (bytes[i] >= 65 /\ bytes[i] <= 70)

\* matches!(b, b'0'..=b'9' | b'a'..=b'f') for every byte
is_valid_hex_bytes(bytes) ==
  \A i \in 1..Len(bytes) : (bytes[i] >= 48 /\ bytes[i] <= 57) \/ (bytes[i] >= 97 /\ bytes[i] <= 102)

\* str::to_ascii_uppercase
to_ascii_uppercase(s) == [i \in 1..Len(s) |-> IF s[i] >= 97 /\ s[i] <= 122 THEN s[i] - 32 ELSE s[i]]

\* a variant that stores the text in upper case instead of as given
from_string_validated_upper(id) ==
  IF len(id) # 32 THEN None
  ELSE IF ~is_valid_hex_bytes(as_bytes(id)) THEN None
  ELSE IF id = AllZeroLiteral THEN None
  ELSE Some(TraceIdOf(to_ascii_uppercase(id)))

from_string_validated(id) ==
  IF len(id) # 32 THEN None
  ELSE IF ~is_valid_hex_bytes(as_bytes(id)) THEN None
  ELSE IF id = AllZeroLiteral THEN None
  ELSE Some(TraceIdOf(id))

\* a variant of the checks in which 32 zeros pass
check_fails_zero_passes(name, id) ==
  CASE name = "length" -> len(id) # 32
    [] name = "alphabet" -> ~is_valid_hex_bytes(as_bytes(id))
    [] name = "zero" -> FALSE

\* the three checks of from_string_validated, each on its own: TRUE when the
\* check makes the function return None
check_fails(name, id) ==
  CASE name = "length" -> len(id) # 32
    [] name = "alphabet" -> ~is_valid_hex_bytes(as_bytes(id))
    [] name = "zero" -> id = AllZeroLiteral

\* the checks made in the order given, returning None at the first that fails
RECURSIVE validated_in_order(_, _)
validated_in_order(order, id) ==
  IF order = <<>> THEN Some(TraceIdOf(id))
  ELSE IF check_fails(Head(order), id) THEN None
  ELSE validated_in_order(Tail(order), id)

\* a variant that keeps at most the first 32 characters of the text
from_string_unchecked_trunc(id) ==
  TraceIdOf(IF Len(id) > 32 THEN SubSeq(id, 1, 32) ELSE id)

\* Self(id.to_string()): no check of any kind
from_string_unchecked(id) == TraceIdOf(id)

(***************************************************************************)
(* The environment of TraceId::new: wall clock, process id, random source. *)
(* A clock read is a Result: None stands for Err (a clock before the       *)
(* epoch), Some(d) for Ok with the duration in the unit that is asked for. *)
(***************************************************************************)
\* a present-day reading in milliseconds, 0x19a5f0c3b21, as a u128
MillisNow == Zero(21) \o <<1, 9, 10, 5, 15, 0, 12, 3, 11, 2, 1>>

\* a reading whose low 48 bits are those of MillisNow, with bit 48 set
MillisFar == Zero(19) \o <<1, 0, 1, 9, 10, 5, 15, 0, 12, 3, 11, 2, 1>>

ClockMillis == {None, Some(MillisNow), Some(MillisFar)}

\* seconds since the epoch as a u64: 0x690c7a00
SecsNow == Zero(8) \o <<6, 9, 0, 12, 7, 10, 0, 0>>

ClockSecs == {None, Some(SecsNow)}

\* std::process::id(): u32
Pids == {<<0, 0, 0, 0, 1, 2, 3, 4>>, <<0, 0, 0, 1, 0, 0, 0, 0>>}

\* fastrand::u32(..)
Randoms == {Zero(8), <<13, 14, 10, 13, 11, 14, 14, 15>>}

\* values of COUNTER a process has after 0, 2^32 - 1 and 2^64 - 1 calls: the
\* next call fetches the last value before the counter field of the text, or
\* the counter itself, wraps to zero
CounterStarts == {Zero(16), Zero(8) \o Ones(8), Ones(16)}

\* every environment the model explores
AnyEnv == [millis |-> ClockMillis, secs |-> ClockSecs, pids |-> Pids, randoms |-> Randoms,
           bindable |-> {}]

\* one ordinary environment: a working clock that does not advance between
\* calls and a random source that repeats itself, so that identifiers differ
\* by their counter field alone
SteadyEnv == [millis |-> {Some(MillisNow)}, secs |-> {Some(SecsNow)},
              pids |-> {<<0, 0, 0, 0, 1, 2, 3, 4>>}, randoms |-> {Zero(8)},
              bindable |-> {}]

\* Result::unwrap_or_default on a Duration, read in a unit of n nibbles
unwrap_or_default(r, n) == IF r.some THEN r.val ELSE Zero(n)

\* a variant of the initialiser that leaves the start time out
machine_id_init_pid_only(pid, clock) == Truncate(pid, 4)

\* the initialiser of MACHINE_ID
machine_id_init(pid, clock) ==
  LET timestamp == Truncate(unwrap_or_default(clock, 16), 8)
  IN Truncate(WordAnd(WordXor(pid, timestamp), Zero(4) \o Ones(4)), 4)

\* the millisecond timestamp TraceId::new reads
timestamp_of(clock) == Truncate(unwrap_or_default(clock, 32), 16)

\* a variant that shifts the timestamp by 12 bits only, over the machine id
high_64_of_overlap(timestamp, machine_id) ==
  WordOr(ShiftLeft(WordAnd(timestamp, Zero(4) \o Ones(12)), 3), Widen(machine_id, 16))

high_64_of(timestamp, machine_id) ==
  WordOr(ShiftLeft(WordAnd(timestamp, Zero(4) \o Ones(12)), 4), Widen(machine_id, 16))

\* a variant that leaves the random part out of the low word
low_64_of_no_random(counter, random_part) ==
  ShiftLeft(WordAnd(counter, Zero(8) \o Ones(8)), 8)

\* a variant that leaves the counter out of the low word
low_64_of_no_counter(counter, random_part) == Widen(random_part, 16)

low_64_of(counter, random_part) ==
  WordOr(ShiftLeft(WordAnd(counter, Zero(8) \o Ones(8)), 8), Widen(random_part, 16))

\* format!("{high_64:016x}{low_64:016x}")
format_id(high_64, low_64) == LowerHex016(high_64) \o LowerHex016(low_64)

\* a variant that reads the counter without advancing it
fetch_add_0(c) == c

\* a variant that advances the counter by two
fetch_add_2(c) == WrappingInc(WrappingInc(c))

\* a variant that stops at u64::MAX instead of wrapping
fetch_add_saturating(c) == IF c = Ones(Len(c)) THEN c ELSE WrappingInc(c)

\* COUNTER.fetch_add(1, Ordering::Relaxed): the new value of the counter
fetch_add_1(c) == WrappingInc(c)

(***************************************************************************)
(* State.                                                                  *)
(***************************************************************************)
VARIABLES
  COUNTER,      \* static COUNTER: AtomicU64
  MACHINE_ID,   \* static MACHINE_ID: LazyLock<u16>; None until first forced
  frame,        \* per thread: the TraceId::new call in progress, if any
  issued,       \* the TraceId::new calls that returned, in order of return
  arg,          \* the string handed to a constructor
  op,           \* the constructor call that has returned, "none" before any
  ret,          \* what the constructor returned
  ret2,         \* what validating the text of ret returned
  tls,          \* per thread: the cell behind CURRENT_TRACE_ID
  task,         \* per task: its scheduling state and its with_trace_id scopes
  obs,          \* per task: the last call of get_trace_id it made
  req           \* per task: the request TraceIdService handles in it

vars == <<COUNTER, MACHINE_ID, frame, issued, arg, op, ret, ret2, tls, task, obs, req>>

pureVars == <<arg, op, ret, ret2>>

ctxVars == <<tls, task, obs>>

svcVars == <<req>>

Threads == 1..NumThreads

IdleFrame == [pc |-> "idle"]

\* calls of TraceId::new begun so far
Begun == Len(issued) + Cardinality({th \in Threads : frame[th].pc # "idle"})

(***************************************************************************)
(* TraceId::new, in two steps: up to and including the fetch_add on        *)
(* COUNTER, then the read of MACHINE_ID (forcing it if need be), the       *)
(* random draw and the formatting.  Clock reads and random draws are local *)
(* to the calling thread; the two steps are the two shared accesses.       *)
(***************************************************************************)
NewBegin(th, purpose, env) ==
  /\ frame[th].pc = "idle"
  /\ Begun < MaxGen
  /\ \E clock \in env.millis :
       frame' = [frame EXCEPT ![th] = [pc |-> "fetched", purpose |-> purpose,
                                       timestamp |-> timestamp_of(clock),
                                       counter |-> COUNTER]]
  /\ COUNTER' = fetch_add_1(COUNTER)

\* a variant that runs the initialiser on every access
ForceMachineId_every_time(env) ==
  \E pid \in env.pids, clock \in env.secs :
    MACHINE_ID' = Some(machine_id_init(pid, clock))

\* LazyLock::force: the initialiser runs if no caller has run it yet
ForceMachineId(env) ==
  IF MACHINE_ID.some
    THEN MACHINE_ID' = MACHINE_ID
    ELSE \E pid \in env.pids, clock \in env.secs :
           MACHINE_ID' = Some(machine_id_init(pid, clock))

\* the record of a finished call: the identifier and the fields it was made of
NewResult(th, machine_id, random_part) ==
  [id |-> TraceIdOf(format_id(high_64_of(frame[th].timestamp, machine_id),
                              low_64_of(frame[th].counter, random_part))),
   timestamp |-> frame[th].timestamp,
   counter |-> frame[th].counter,
   machine_id |-> machine_id,
   random_part |-> random_part]

NewEnd(th, purpose, env) ==
  /\ frame[th].pc = "fetched"
  /\ frame[th].purpose = purpose
  /\ ForceMachineId(env)
  /\ \E random_part \in env.randoms :
       issued' = Append(issued, NewResult(th, MACHINE_ID'.val, random_part))
  /\ frame' = [frame EXCEPT ![th] = IdleFrame]

(***************************************************************************)
(* Specification of the generator alone: threads call TraceId::new.        *)
(***************************************************************************)
InitShared ==
  /\ COUNTER \in CounterStarts
  /\ MACHINE_ID = None
  /\ frame = [th \in Threads |-> IdleFrame]
  /\ issued = <<>>

InitNoCall ==
  /\ arg = <<>>
  /\ op = "none"
  /\ ret = None
  /\ ret2 = None

InitNoTask ==
  /\ tls = [th \in Threads |-> None]
  /\ task = <<>>
  /\ obs = <<>>

\* no request is being handled
InitNoRequest == req = <<>>

InitGen == InitShared /\ InitNoCall /\ InitNoTask /\ InitNoRequest

CallNew(th) ==
  /\ NewBegin(th, "new", AnyEnv)
  /\ UNCHANGED <<MACHINE_ID, issued, pureVars, svcVars, ctxVars>>

ReturnNew(th) ==
  /\ NewEnd(th, "new", AnyEnv)
  /\ UNCHANGED <<COUNTER, pureVars, svcVars, ctxVars>>

NextGen == \E th \in Threads : CallNew(th) \/ ReturnNew(th)

SpecGen == InitGen /\ [][NextGen]_vars

(***************************************************************************)
(* Specification of the constructors as pure functions: an input string is *)
(* drawn, from_string_validated is applied to it, and then to the text of  *)
(* the identifier it returned.                                             *)
(***************************************************************************)
\* "0af7651916cd43dd8448eb211c80319c"
LitValid == <<48, 97, 102, 55, 54, 53, 49, 57, 49, 54, 99, 100, 52, 51, 100, 100, 56, 52, 52, 56, 101, 98, 50, 49, 49, 99, 56, 48, 51, 49, 57, 99>>

\* "0AF7651916CD43DD8448EB211C80319C"
LitUpper == <<48, 65, 70, 55, 54, 53, 49, 57, 49, 54, 67, 68, 52, 51, 68, 68, 56, 52, 52, 56, 69, 66, 50, 49, 49, 67, 56, 48, 51, 49, 57, 67>>

\* "0af7651916cd43dd8448eb211c80319g"
LitBadChar == <<48, 97, 102, 55, 54, 53, 49, 57, 49, 54, 99, 100, 52, 51, 100, 100, 56, 52, 52, 56, 101, 98, 50, 49, 49, 99, 56, 48, 51, 49, 57, 103>>

\* "short"
LitShort == <<115, 104, 111, 114, 116>>

\* "toolongtraceidentifierthatexceeds32chars"
LitLong == <<116, 111, 111, 108, 111, 110, 103, 116, 114, 97, 99, 101, 105, 100, 101, 110, 116, 105, 102, 105, 101, 114, 116, 104, 97, 116, 101, 120, 99, 101, 101, 100, 115, 51, 50, 99, 104, 97, 114, 115>>

\* characters on both sides of every range boundary of the hex alphabet,
\* a control character, a space, punctuation, and two non-ASCII characters
\* (U+00E9, two bytes; U+FF10 FULLWIDTH DIGIT ZERO, three bytes)
OddChars == {0, 32, 45, 47, 48, 57, 58, 65, 70, 71, 96, 97, 102, 103, 233, 65296}

FillChars == {48, 57, 102}

InputLengths == {0, 5} \cup ((32 - LenSlack)..(32 + LenSlack))

\* n times the character fill, with the character c at position p
Patterned(n, fill, p, c) == [i \in 1..n |-> IF i = p THEN c ELSE fill]

Inputs ==
  {LitValid, LitUpper, LitBadChar, LitShort, LitLong}
  \cup {Patterned(n, fill, p, c) : n \in InputLengths, fill \in FillChars, p \in 1..(33 + LenSlack), c \in OddChars}

InitPure ==
  /\ InitShared
  /\ InitNoTask
  /\ InitNoRequest
  /\ arg \in Inputs
  /\ op = "none"
  /\ ret = None
  /\ ret2 = None

Validate ==
  /\ op = "none"
  /\ ret' = from_string_validated(arg)
  /\ op' = "from_string_validated"
  /\ UNCHANGED <<COUNTER, MACHINE_ID, frame, issued, arg, ret2, ctxVars, svcVars>>

Revalidate ==
  /\ op = "from_string_validated"
  /\ ret.some
  /\ ret2' = from_string_validated(as_str(ret.val))
  /\ op' = "revalidated"
  /\ UNCHANGED <<COUNTER, MACHINE_ID, frame, issued, arg, ret, ctxVars, svcVars>>

\* TraceId::from_string_unchecked(arg): ret is the identifier itself
Unchecked ==
  /\ op = "none"
  /\ ret' = from_string_unchecked(arg)
  /\ op' = "from_string_unchecked"
  /\ UNCHANGED <<COUNTER, MACHINE_ID, frame, issued, arg, ret2, ctxVars, svcVars>>

NextPure == Validate \/ Revalidate \/ Unchecked

SpecPure == InitPure /\ [][NextPure]_vars

(***************************************************************************)
(* The task-local CURRENT_TRACE_ID.  A task_local key is a thread-local    *)
(* cell holding an Option; LocalKey::scope makes a future that owns a slot *)
(* holding the value.  Every poll of that future swaps slot and cell,      *)
(* polls the body, and swaps them back when the poll returns, ready or     *)
(* pending; dropping the future unpolled does the same around the drop of  *)
(* the body.  try_with reads the cell of the calling thread.               *)
(***************************************************************************)
Tasks == 1..NumTasks

\* identifiers that arrive from outside the process: one for each task's
\* request ("1fff...", "2fff...", ...) and one that any task may use
InboundId(t) == TraceIdOf(Patterned(32, 102, 1, 48 + t))

SharedId == TraceIdOf(LitValid)

\* the identifiers issued by TraceId::new so far
IssuedIds == {issued[k].id : k \in 1..Len(issued)}

\* a variant of the swap back that leaves the value in the thread's cell
scope_exit_keep(slot, cell) == [slot |-> slot, cell |-> cell]

\* a variant of the swap back that empties the cell instead of restoring it
scope_exit_clear(slot, cell) == [slot |-> cell, cell |-> None]

\* entering scope_inner: the slot's value goes to the cell, the cell's to the slot
scope_enter(slot, cell) == [slot |-> cell, cell |-> slot]

\* leaving scope_inner (the guard's drop): the same swap again
scope_exit(slot, cell) == [slot |-> cell, cell |-> slot]

\* dropping the scope futures from level k inwards, none of them being polled:
\* each swaps in, drops its body (the next scope future), and swaps back.
\* The result is the value left in the thread's cell.
RECURSIVE drop_scopes(_, _, _)
drop_scopes(cell, scopes, k) ==
  IF k > Len(scopes) THEN cell
  ELSE LET in == scope_enter(scopes[k].slot, cell)
           inner == drop_scopes(in.cell, scopes, k + 1)
       IN scope_exit(in.slot, inner).cell

NoEvent == [ev |-> "none"]

\* on: the worker of the current or the last poll, 0 before the first;
\* moved: the current poll is on another worker than the poll before it
NewTask == [st |-> "idle", on |-> 0, moved |-> FALSE, active |-> 0, scopes |-> <<>>,
            last |-> NoEvent]

\* th is free to poll a task
Free(th) == frame[th].pc = "idle" /\ \A t \in DOMAIN task : task[t].st = "polling" => task[t].on # th

\* task t is being polled and is not inside a call of the crate
Running(t) == task[t].st = "polling" /\ frame[task[t].on].pc = "idle"

\* the runtime polls task t on worker th
Poll(t, th) ==
  /\ task[t].st = "idle"
  /\ Free(th)
  /\ task' = [task EXCEPT ![t].st = "polling", ![t].on = th,
                          ![t].moved = (task[t].on # 0 /\ task[t].on # th),
                          ![t].active = 0]
  /\ UNCHANGED <<COUNTER, MACHINE_ID, frame, issued, pureVars, svcVars, tls, obs>>

\* CURRENT_TRACE_ID.scope(trace_id, future) and the first poll of it: the
\* value is swapped into the cell of the polling thread
EnterScope(t, trace_id) ==
  /\ Running(t)
  /\ task[t].active = Len(task[t].scopes)
  /\ Len(task[t].scopes) < MaxDepth
  /\ LET th == task[t].on
         sw == scope_enter(Some(trace_id), tls[th])
     IN /\ tls' = [tls EXCEPT ![th] = sw.cell]
        /\ task' = [task EXCEPT
                      ![t].scopes = Append(@, [bound |-> trace_id, slot |-> sw.slot,
                                               resumed |-> FALSE]),
                      ![t].active = @ + 1,
                      ![t].last = NoEvent]
  /\ obs' = [obs EXCEPT ![t] = None]

\* with_trace_id(trace_id, future).await, up to the first poll of the body
Enter(t, trace_id) ==
  /\ EnterScope(t, trace_id)
  /\ UNCHANGED <<COUNTER, MACHINE_ID, frame, issued, pureVars, svcVars>>

\* a later poll reaches the scope future at the next level
PollScope(t) ==
  /\ Running(t)
  /\ task[t].active < Len(task[t].scopes)
  /\ LET th == task[t].on
         k == task[t].active + 1
         sw == scope_enter(task[t].scopes[k].slot, tls[th])
     IN /\ tls' = [tls EXCEPT ![th] = sw.cell]
        /\ task' = [task EXCEPT ![t].scopes[k].slot = sw.slot,
                                ![t].scopes[k].resumed = TRUE,
                                ![t].active = k, ![t].last = NoEvent]
  /\ obs' = [obs EXCEPT ![t] = None]
  /\ UNCHANGED <<COUNTER, MACHINE_ID, frame, issued, pureVars, svcVars>>

\* the body at the active level is pending: the scope future swaps the cell
\* back and keeps the value in its slot
PendingScope(t) ==
  /\ Running(t)
  /\ task[t].active >= 1
  /\ LET th == task[t].on
         k == task[t].active
         sw == scope_exit(task[t].scopes[k].slot, tls[th])
     IN /\ tls' = [tls EXCEPT ![th] = sw.cell]
        /\ task' = [task EXCEPT ![t].scopes[k].slot = sw.slot, ![t].active = k - 1,
                                ![t].last = NoEvent]
  /\ obs' = [obs EXCEPT ![t] = None]

\* the poll of the scope future at the active level returns Pending
Pending(t) ==
  /\ PendingScope(t)
  /\ UNCHANGED <<COUNTER, MACHINE_ID, frame, issued, pureVars, svcVars>>

\* the task's poll returns Pending to the runtime
Yield(t) ==
  /\ Running(t)
  /\ task[t].active = 0
  /\ task' = [task EXCEPT ![t].st = "idle", ![t].last = NoEvent]
  /\ obs' = [obs EXCEPT ![t] = None]
  /\ UNCHANGED <<COUNTER, MACHINE_ID, frame, issued, pureVars, svcVars, tls>>

\* the body of the innermost scope is ready: the scope future swaps the
\* cell back and is ready too
ExitScope(t) ==
  /\ Running(t)
  /\ task[t].active >= 1
  /\ task[t].active = Len(task[t].scopes)
  /\ LET th == task[t].on
         k == task[t].active
         sw == scope_exit(task[t].scopes[k].slot, tls[th])
     IN /\ tls' = [tls EXCEPT ![th] = sw.cell]
        /\ task' = [task EXCEPT ![t].scopes = SubSeq(@, 1, k - 1), ![t].active = k - 1,
                                ![t].last = [ev |-> "exit", id |-> task[t].scopes[k].bound]]
  /\ obs' = [obs EXCEPT ![t] = None]

\* the body of the innermost scope is ready: with_trace_id returns
Exit(t) ==
  /\ ExitScope(t)
  /\ UNCHANGED <<COUNTER, MACHINE_ID, frame, issued, pureVars, svcVars>>

\* the code at the active level drops the scope futures below it, which are
\* suspended: a timeout or select around with_trace_id, or the runtime
\* dropping an aborted task
CancelScopes(t) ==
  /\ Running(t)
  /\ task[t].active < Len(task[t].scopes)
  /\ LET th == task[t].on
         k == task[t].active
     IN /\ tls' = [tls EXCEPT ![th] = drop_scopes(tls[th], task[t].scopes, k + 1)]
        /\ task' = [task EXCEPT ![t].scopes = SubSeq(@, 1, k),
                                ![t].last = [ev |-> "cancel", id |-> task[t].scopes[k + 1].bound]]
  /\ obs' = [obs EXCEPT ![t] = None]

Cancel(t) ==
  /\ CancelScopes(t)
  /\ UNCHANGED <<COUNTER, MACHINE_ID, frame, issued, pureVars, svcVars>>

\* the task's future is ready (or was dropped): the runtime retires the task
Complete(t) ==
  /\ Running(t)
  /\ task[t].active = 0
  /\ task[t].scopes = <<>>
  /\ task' = [task EXCEPT ![t].st = "done", ![t].on = 0, ![t].moved = FALSE,
                          ![t].last = NoEvent]
  /\ obs' = [obs EXCEPT ![t] = None]
  /\ UNCHANGED <<COUNTER, MACHINE_ID, frame, issued, pureVars, svcVars, tls>>

\* what the calling code of task t is bound to: the scope at its active level
Binding(t) ==
  IF task[t].active = 0 THEN None ELSE Some(task[t].scopes[task[t].active].bound)

\* the record of a get_trace_id call by task t that returned val: where the
\* caller stood, and what the call before it returned if that was a fallback
Observation(t, val, fresh) ==
  [val |-> val,
   fresh |-> fresh,
   level |-> task[t].active,
   binding |-> Binding(t),
   resumed |-> task[t].active > 0 /\ task[t].scopes[task[t].active].resumed,
   moved |-> task[t].active > 0 /\ task[t].scopes[task[t].active].resumed /\ task[t].moved,
   after |-> task[t].last,
   before |-> IF obs[t].some /\ obs[t].val.fresh THEN Some(obs[t].val.val) ELSE None]

\* get_trace_id with a value in the cell: try_with clones it
GetBound(t) ==
  /\ Running(t)
  /\ tls[task[t].on].some
  /\ obs' = [obs EXCEPT ![t] = Some(Observation(t, tls[task[t].on].val, FALSE))]
  /\ UNCHANGED <<COUNTER, MACHINE_ID, frame, issued, pureVars, svcVars, tls, task>>

\* get_trace_id with an empty cell: try_with fails, TraceId::new is called
GetUnbound(t, env) ==
  /\ Running(t)
  /\ ~tls[task[t].on].some
  /\ NewBegin(task[t].on, "get", env)
  /\ UNCHANGED <<MACHINE_ID, issued, pureVars, svcVars, ctxVars>>

\* ... and its result is returned
GetUnboundReturn(t, env) ==
  /\ task[t].st = "polling"
  /\ NewEnd(task[t].on, "get", env)
  /\ obs' = [obs EXCEPT ![t] = Some(Observation(t, issued'[Len(issued')].id, TRUE))]
  /\ UNCHANGED <<COUNTER, pureVars, svcVars, tls, task>>

TaskNew(t, env) ==
  /\ Running(t)
  /\ NewBegin(task[t].on, "new", env)
  /\ obs' = [obs EXCEPT ![t] = None]
  /\ UNCHANGED <<MACHINE_ID, issued, pureVars, svcVars, tls, task>>

TaskNewReturn(t, env) ==
  /\ task[t].st = "polling"
  /\ NewEnd(task[t].on, "new", env)
  /\ UNCHANGED <<COUNTER, pureVars, svcVars, ctxVars>>

Init ==
  /\ COUNTER = Zero(16)
  /\ MACHINE_ID = None
  /\ frame = [th \in Threads |-> IdleFrame]
  /\ issued = <<>>
  /\ InitNoCall
  /\ tls = [th \in Threads |-> None]
  /\ task = [t \in Tasks |-> NewTask]
  /\ obs = [t \in Tasks |-> None]
  /\ InitNoRequest

\* the identifier task t has in hand for its next scope: its request's for
\* the outermost scope, the shared one for a nested scope
Offered(t) == IF task[t].scopes = <<>> THEN {InboundId(t)} ELSE {SharedId}

\* the steps of task t in environment env
TaskStep(t, env) ==
  \/ \E th \in Threads : Poll(t, th)
  \/ \E trace_id \in Offered(t) \cup env.bindable : Enter(t, trace_id)
  \/ PollScope(t)
  \/ Pending(t)
  \/ Yield(t)
  \/ Exit(t)
  \/ Cancel(t)
  \/ Complete(t)
  \/ GetBound(t)
  \/ GetUnbound(t, env)
  \/ GetUnboundReturn(t, env)

\* a task calls TraceId::new itself, to have an identifier to bind
TaskNewStep(t, env) ==
  \/ TaskNew(t, env)
  \/ TaskNewReturn(t, env)

(***************************************************************************)
(* Specification of the context: the runtime's workers poll the tasks in   *)
(* any order, in one ordinary environment.                                 *)
(***************************************************************************)
Next == \E t \in Tasks : TaskStep(t, SteadyEnv)

Spec == Init /\ [][Next]_vars

(***************************************************************************)
(* Specification of the isolation scenario: every task runs, any number of *)
(* times, with_trace_id(its identifier, body) where body calls             *)
(* get_trace_id and suspends; the runtime polls the tasks on any workers.  *)
(***************************************************************************)
NextIsolation ==
  \E t \in Tasks :
    \/ \E th \in Threads : Poll(t, th)
    \/ (task[t].scopes = <<>> /\ Enter(t, InboundId(t)))
    \/ PollScope(t)
    \/ Pending(t)
    \/ Yield(t)
    \/ Exit(t)
    \/ Complete(t)
    \/ GetBound(t)

SpecIsolation == Init /\ [][NextIsolation]_vars

(***************************************************************************)
(* Specification of one task alone, which may also bind identifiers it got *)
(* from TraceId::new.                                                      *)
(***************************************************************************)
SoloEnv == [SteadyEnv EXCEPT !.bindable = IssuedIds]

NextSolo == TaskStep(1, SoloEnv) \/ TaskNewStep(1, SoloEnv)

SpecSolo == Init /\ [][NextSolo]_vars

(***************************************************************************)
(* Specification of one task alone, in every environment.                  *)
(***************************************************************************)
NextSoloAnyEnv == TaskStep(1, AnyEnv)

SpecSoloAnyEnv == Init /\ [][NextSoloAnyEnv]_vars

(***************************************************************************)
(* Specification of spawning: a root task enters with_trace_id(A, body)    *)
(* and its body spawns the other tasks with tokio::spawn.  A spawned       *)
(* future is not wrapped in a scope: the runtime polls it like any other   *)
(* task, on any free worker.  The spawned tasks call get_trace_id and may  *)
(* enter a scope of their own.                                             *)
(***************************************************************************)
\* the task that spawns the others
Root == 0

\* a task that exists only once it is spawned
Unspawned == [NewTask EXCEPT !.st = "unspawned"]

\* tokio::spawn(future) called by the code of task p: task c becomes
\* schedulable; under is the binding of the spawning code at that moment
Spawn(p, c) ==
  /\ Running(p)
  /\ task[p].active >= 1
  /\ task[c].st = "unspawned"
  /\ task' = [task EXCEPT ![c].st = "idle",
                          ![c].last = [ev |-> "spawn", under |-> Binding(p)],
                          ![p].last = NoEvent]
  /\ obs' = [obs EXCEPT ![p] = None]
  /\ UNCHANGED <<COUNTER, MACHINE_ID, frame, issued, pureVars, svcVars, tls>>

InitSpawn ==
  /\ COUNTER = Zero(16)
  /\ MACHINE_ID = None
  /\ frame = [th \in Threads |-> IdleFrame]
  /\ issued = <<>>
  /\ InitNoCall
  /\ tls = [th \in Threads |-> None]
  /\ task = [t \in {Root} \cup Tasks |-> IF t = Root THEN NewTask ELSE Unspawned]
  /\ obs = [t \in {Root} \cup Tasks |-> None]
  /\ InitNoRequest

\* the steps of the root task: it enters its scope, spawns from inside it,
\* suspends and is resumed; the scope stays alive
RootStep ==
  \/ \E th \in Threads : Poll(Root, th)
  \/ (task[Root].scopes = <<>> /\ Enter(Root, InboundId(Root)))
  \/ PollScope(Root)
  \/ Pending(Root)
  \/ Yield(Root)
  \/ GetBound(Root)
  \/ \E c \in Tasks : Spawn(Root, c)

\* the steps of a spawned task: get_trace_id unbound or inside a scope of
\* its own, with suspensions
SpawnedStep(c) ==
  \/ \E th \in Threads : Poll(c, th)
  \/ (task[c].scopes = <<>> /\ Enter(c, InboundId(c)))
  \/ PollScope(c)
  \/ Pending(c)
  \/ Yield(c)
  \/ GetBound(c)
  \/ GetUnbound(c, SteadyEnv)
  \/ GetUnboundReturn(c, SteadyEnv)

NextSpawn == RootStep \/ \E c \in Tasks : SpawnedStep(c)

SpecSpawn == InitSpawn /\ [][NextSpawn]_vars

(***************************************************************************)
(* The axum integration.  A header value is a sequence of bytes; a custom  *)
(* generator is a function that returns a String, and is modelled by the   *)
(* String it returns when it is called.                                    *)
(***************************************************************************)
\* the bytes a HeaderValue can hold: no control characters except tab
is_valid_header_byte(b) == (b >= 32 /\ b # 127) \/ b = 9

\* HeaderValue::to_str: Ok only if every byte is visible ASCII (or tab); the
\* text then has the bytes as its characters
to_str(header_value) ==
  IF \A i \in 1..Len(header_value) :
       (header_value[i] >= 32 /\ header_value[i] < 127) \/ header_value[i] = 9
    THEN Some(header_value)
    ELSE None

\* str::parse::<HeaderValue>: Ok with the bytes of the text, if a HeaderValue
\* can hold them
parse_header_value(s) ==
  IF \A i \in 1..Len(as_bytes(s)) : is_valid_header_byte(as_bytes(s)[i])
    THEN Some(as_bytes(s))
    ELSE None

\* u8::is_ascii_hexdigit, u8::is_ascii_uppercase
is_ascii_hexdigit(b) == (b >= 48 /\ b <= 57) \/ (b >= 65 /\ b <= 70) \/ (b >= 97 /\ b <= 102)

is_ascii_uppercase(b) == b >= 65 /\ b <= 90

is_valid_trace_id_fast(id) ==
  /\ len(id) = 32
  /\ \A i \in 1..Len(as_bytes(id)) :
       is_ascii_hexdigit(as_bytes(id)[i]) /\ ~is_ascii_uppercase(as_bytes(id)[i])

\* a variant of the fast path that never takes the header
from_headers_ignored(headers) == None

\* the fast path of extract_or_generate_trace_id: the identifier taken from
\* the x-trace-id header, None if the function falls through to generation
from_headers(headers) ==
  IF ~headers.some THEN None
  ELSE IF ~to_str(headers.val).some THEN None
  ELSE IF is_valid_trace_id_fast(to_str(headers.val).val)
    THEN Some(from_string_unchecked(to_str(headers.val).val))
  ELSE from_string_validated(to_str(headers.val).val)

\* the custom generator's part: its output if from_string_validated accepts
\* it, None if there is no generator or TraceId::new is to be called instead
from_generator(generator) ==
  IF generator.some THEN from_string_validated(generator.val) ELSE None

\* "invalid-id", and sixteen control characters
LitInvalidId == <<105, 110, 118, 97, 108, 105, 100, 45, 105, 100>>

LitControl == [i \in 1..16 |-> i - 1]

\* texts sent in the x-trace-id header
HeaderTexts ==
  {<<>>, LitValid, LitUpper, LitBadChar, LitShort, LitLong, AllZeroLiteral}
  \cup {Patterned(n, 102, 1, c) : n \in InputLengths \ {0}, c \in OddChars}

\* headers.get(TRACE_ID_HEADER): no header, or a value a HeaderValue can hold
Headers ==
  {None} \cup {Some(as_bytes(s)) : s \in {x \in HeaderTexts :
                  \A i \in 1..Len(as_bytes(x)) : is_valid_header_byte(as_bytes(x)[i])}}

\* no custom generator, or one that returns the given String
Generators == {None} \cup {Some(s) : s \in {LitValid, LitUpper, LitInvalidId, LitControl, AllZeroLiteral}}

DefaultConfig == [enable_span |-> TRUE, enable_response_header |-> TRUE]

\* "baaaaaaaaaaaaaaaaaaaaaaaaaaaaaaa": an x-trace-id value the inner service
\* puts in its response by itself
InnerOwnValue == as_bytes(Patterned(32, 97, 1, 98))

\* what the inner service's future resolves to: Err, or Ok with a response
\* that has or has not an x-trace-id header already
InnerResults ==
  {[ok |-> FALSE, header |-> None], [ok |-> TRUE, header |-> None],
   [ok |-> TRUE, header |-> Some(InnerOwnValue)]}

\* a request as TraceIdService::call receives it, together with the service's
\* generator and config and the result the inner service will give; entry is
\* the value of COUNTER when call began
NewRequest(headers, generator, config, inner) ==
  [pc |-> "received", headers |-> headers, generator |-> generator, config |-> config,
   inner |-> inner,
   trace_id |-> None, source |-> "none", consulted |-> FALSE, entry |-> Zero(16),
   extensions |-> None, span |-> None, response |-> None]

\* extract_or_generate_trace_id for request r, run by thread th, up to its
\* return or to the fetch_add of the TraceId::new it calls
Extract(r, th, env) ==
  /\ req[r].pc = "received"
  /\ frame[th].pc = "idle"
  /\ IF from_headers(req[r].headers).some
       THEN /\ req' = [req EXCEPT ![r].pc = "chosen",
                                  ![r].trace_id = from_headers(req[r].headers),
                                  ![r].source = "header",
                                  ![r].entry = COUNTER]
            /\ UNCHANGED <<COUNTER, frame>>
       ELSE IF from_generator(req[r].generator).some
         THEN /\ req' = [req EXCEPT ![r].pc = "chosen",
                                    ![r].trace_id = from_generator(req[r].generator),
                                    ![r].source = "generator",
                                    ![r].consulted = TRUE,
                                    ![r].entry = COUNTER]
              /\ UNCHANGED <<COUNTER, frame>>
         ELSE /\ NewBegin(th, "extract", env)
              /\ req' = [req EXCEPT ![r].pc = "generating",
                                    ![r].consulted = req[r].generator.some,
                                    ![r].entry = COUNTER]
  /\ UNCHANGED <<MACHINE_ID, issued>>

\* ... the TraceId::new it called returns, and so does the function
ExtractReturn(r, th, env) ==
  /\ req[r].pc = "generating"
  /\ NewEnd(th, "extract", env)
  /\ req' = [req EXCEPT ![r].pc = "chosen",
                        ![r].trace_id = Some(issued'[Len(issued')].id),
                        ![r].source = "new"]
  /\ UNCHANGED COUNTER

(***************************************************************************)
(* Specification of extract_or_generate_trace_id alone: one call, with any *)
(* header and any generator, in every environment.                         *)
(***************************************************************************)
InitExtract ==
  /\ InitShared
  /\ InitNoCall
  /\ InitNoTask
  /\ \E headers \in Headers, generator \in Generators :
       req = <<NewRequest(headers, generator, DefaultConfig, [ok |-> TRUE, header |-> None])>>

ExtractCall(th) ==
  /\ Extract(1, th, AnyEnv)
  /\ UNCHANGED <<pureVars, ctxVars>>

ExtractCallReturn(th) ==
  /\ ExtractReturn(1, th, AnyEnv)
  /\ UNCHANGED <<pureVars, ctxVars>>

NextExtract == \E th \in Threads : ExtractCall(th) \/ ExtractCallReturn(th)

SpecExtract == InitExtract /\ [][NextExtract]_vars

(***************************************************************************)
(* TraceIdService::call and the future it returns.  call runs              *)
(* extract_or_generate_trace_id, puts the identifier in the request's      *)
(* extensions and calls the inner service, which returns its future; the   *)
(* returned future, when polled, makes the span (if enabled) and runs the  *)
(* inner future inside with_trace_id, adding the response header when the  *)
(* inner future is ready.  The inner service is any tower Service: it may  *)
(* call get_trace_id in its call as well as in its future.                 *)
(***************************************************************************)
\* TraceIdService::call, up to the return of extract_or_generate_trace_id or
\* to the fetch_add of the TraceId::new it calls
ServiceCall(t, env) ==
  /\ Running(t)
  /\ Extract(t, task[t].on, env)
  /\ UNCHANGED <<pureVars, ctxVars>>

\* ... that TraceId::new and extract_or_generate_trace_id return
ServiceCallGenerated(t, env) ==
  /\ task[t].st = "polling"
  /\ ExtractReturn(t, task[t].on, env)
  /\ UNCHANGED <<pureVars, ctxVars>>

\* req.extensions_mut().insert(trace_id.clone()); self.inner.call(req) begins
CallInner(t) ==
  /\ Running(t)
  /\ req[t].pc = "chosen"
  /\ req' = [req EXCEPT ![t].pc = "inner_call", ![t].extensions = req[t].trace_id]
  /\ UNCHANGED <<COUNTER, MACHINE_ID, frame, issued, pureVars, ctxVars>>

\* the code of the inner service is running: its call, or a poll of its
\* future, which the body of the scope awaits
InnerRunning(t) ==
  \/ req[t].pc = "inner_call"
  \/ (req[t].pc = "handling" /\ task[t].active = Len(task[t].scopes))

\* the inner service calls get_trace_id, in its call or in its future (the
\* TraceId extractor of a handler)
InnerGetBound(t) ==
  /\ InnerRunning(t)
  /\ GetBound(t)

InnerGetUnbound(t, env) ==
  /\ InnerRunning(t)
  /\ GetUnbound(t, env)

\* self.inner.call(req) returns the inner future, and call the boxed future
InnerCallReturn(t) ==
  /\ Running(t)
  /\ req[t].pc = "inner_call"
  /\ req' = [req EXCEPT ![t].pc = "future"]
  /\ obs' = [obs EXCEPT ![t] = None]
  /\ UNCHANGED <<COUNTER, MACHINE_ID, frame, issued, pureVars, tls, task>>

\* first poll of the boxed future with config.enable_span: the span is made
\* with the identifier as a field, and with_trace_id is entered inside it
PollFutureSpan(t) ==
  /\ req[t].pc = "future"
  /\ req[t].config.enable_span
  /\ EnterScope(t, req[t].trace_id.val)
  /\ req' = [req EXCEPT ![t].pc = "handling",
                        ![t].span = Some(as_str(req[t].trace_id.val))]
  /\ UNCHANGED <<COUNTER, MACHINE_ID, frame, issued, pureVars>>

\* first poll of the boxed future without config.enable_span
PollFuturePlain(t) ==
  /\ req[t].pc = "future"
  /\ ~req[t].config.enable_span
  /\ EnterScope(t, req[t].trace_id.val)
  /\ req' = [req EXCEPT ![t].pc = "handling"]
  /\ UNCHANGED <<COUNTER, MACHINE_ID, frame, issued, pureVars>>

\* a variant of the body that never sets the response header
span_branch_response_never(config, trace_id, inner) == inner

\* a variant of the body that sets the response header whatever the config
span_branch_response_always(config, trace_id, inner) ==
  IF ~inner.ok THEN inner
  ELSE [inner EXCEPT !.header = parse_header_value(as_str(trace_id))]

\* a variant of the body that answers an error of the inner service with a
\* response of its own carrying the header, instead of handing the error on
span_branch_response_recover(config, trace_id, inner) ==
  IF ~inner.ok THEN [ok |-> TRUE, header |-> parse_header_value(as_str(trace_id))]
  ELSE IF config.enable_response_header /\ parse_header_value(as_str(trace_id)).some
    THEN [inner EXCEPT !.header = parse_header_value(as_str(trace_id))]
  ELSE inner

\* the body of the scope in the enable_span branch: future.await?, then the
\* header is inserted if enabled and if the text parses as a HeaderValue
span_branch_response(config, trace_id, inner) ==
  IF ~inner.ok THEN inner
  ELSE IF config.enable_response_header /\ parse_header_value(as_str(trace_id)).some
    THEN [inner EXCEPT !.header = parse_header_value(as_str(trace_id))]
  ELSE inner

\* a variant of the body of the other branch that never sets the header
plain_branch_response_never(config, trace_id, inner) == inner

\* the body of the scope in the branch without span
plain_branch_response(config, trace_id, inner) ==
  IF ~inner.ok THEN inner
  ELSE IF config.enable_response_header /\ parse_header_value(as_str(trace_id)).some
    THEN [inner EXCEPT !.header = parse_header_value(as_str(trace_id))]
  ELSE inner

\* the inner future is ready: the body finishes, with_trace_id returns and
\* the boxed future is ready with the response (enable_span branch)
RespondSpan(t) ==
  /\ req[t].pc = "handling"
  /\ req[t].config.enable_span
  /\ ExitScope(t)
  /\ req' = [req EXCEPT ![t].pc = "done",
                        ![t].response = Some(span_branch_response(req[t].config,
                                                req[t].trace_id.val, req[t].inner))]
  /\ UNCHANGED <<COUNTER, MACHINE_ID, frame, issued, pureVars>>

\* the same in the branch without span
RespondPlain(t) ==
  /\ req[t].pc = "handling"
  /\ ~req[t].config.enable_span
  /\ ExitScope(t)
  /\ req' = [req EXCEPT ![t].pc = "done",
                        ![t].response = Some(plain_branch_response(req[t].config,
                                                req[t].trace_id.val, req[t].inner))]
  /\ UNCHANGED <<COUNTER, MACHINE_ID, frame, issued, pureVars>>

(***************************************************************************)
(* Specification of the service: the same request (header, generator,      *)
(* response header setting, inner service) is sent to the default service  *)
(* and then to services with or without enable_span, one request after the *)
(* other, each handled in a task of its own.                               *)
(***************************************************************************)
\* no header, a valid one, and one that is rejected
ServiceHeaders == {None, Some(as_bytes(LitValid)), Some(as_bytes(LitUpper))}

ServiceGenerators == {None, Some(LitValid), Some(LitInvalidId)}

InitService ==
  /\ COUNTER = Zero(16)
  /\ MACHINE_ID = None
  /\ frame = [th \in Threads |-> IdleFrame]
  /\ issued = <<>>
  /\ InitNoCall
  /\ tls = [th \in Threads |-> None]
  /\ task = [t \in Tasks |-> NewTask]
  /\ obs = [t \in Tasks |-> None]
  /\ \E headers \in ServiceHeaders, generator \in ServiceGenerators,
        enable_response_header \in BOOLEAN, inner \in InnerResults :
       \E enable_span \in {f \in [Tasks -> BOOLEAN] : f[1]} :
         req = [t \in Tasks |->
                  NewRequest(headers, generator,
                             [enable_span |-> enable_span[t],
                              enable_response_header |-> enable_response_header],
                             inner)]

\* the runtime polls the task of request t: for the first time once the
\* requests before it are finished, later whenever it has yielded
PollRequest(t, th) ==
  /\ \A u \in Tasks : u < t => task[u].st = "done"
  /\ Poll(t, th)

ServiceStep(t, env) ==
  \/ \E th \in Threads : PollRequest(t, th)
  \/ ServiceCall(t, env)
  \/ ServiceCallGenerated(t, env)
  \/ CallInner(t)
  \/ InnerGetBound(t)
  \/ InnerGetUnbound(t, env)
  \/ GetUnboundReturn(t, env)
  \/ InnerCallReturn(t)
  \/ PollFutureSpan(t)
  \/ PollFuturePlain(t)
  \/ PollScope(t)
  \/ Pending(t)
  \/ (req[t].pc = "handling" /\ Yield(t))
  \/ RespondSpan(t)
  \/ RespondPlain(t)
  \/ (req[t].pc = "done" /\ Complete(t))

NextService == \E t \in Tasks : ServiceStep(t, SteadyEnv)

SpecService == InitService /\ [][NextService]_vars

(***************************************************************************)
(* Specification of requests in sequence: every request carries a valid    *)
(* x-trace-id of its own, or none, and is handled by the default service   *)
(* once the one before it is finished, in the task that handled that one (a *)
(* caller awaiting one request after the other) or in a new task.  A       *)
(* request finishes with the inner service's response or error, or by its  *)
(* future being dropped while it is suspended.                             *)
(***************************************************************************)
\* the x-trace-id header of request t
OwnHeader(t) == Some(as_bytes(as_str(InboundId(t))))

InitRequests ==
  /\ COUNTER = Zero(16)
  /\ MACHINE_ID = None
  /\ frame = [th \in Threads |-> IdleFrame]
  /\ issued = <<>>
  /\ InitNoCall
  /\ tls = [th \in Threads |-> None]
  /\ task = [t \in Tasks |-> NewTask]
  /\ obs = [t \in Tasks |-> None]
  /\ \E inner \in InnerResults : \E sent \in [Tasks -> BOOLEAN] :
       req = [t \in Tasks |->
                NewRequest(IF sent[t] THEN OwnHeader(t) ELSE None,
                           None, DefaultConfig, inner)]

\* the owner of the boxed future drops it while the scope is suspended (the
\* caller gave up on the request): the scope future and the inner future in
\* it are dropped, and there is no response
DropFuture(t) ==
  /\ req[t].pc = "handling"
  /\ CancelScopes(t)
  /\ req' = [req EXCEPT ![t].pc = "done"]
  /\ UNCHANGED <<COUNTER, MACHINE_ID, frame, issued, pureVars>>

\* the code that awaited request t - 1 goes on, in the same poll of the same
\* task, to send request t: the task is carried on under the index of the
\* request it handles
SameTask(t) ==
  /\ t - 1 \in Tasks
  /\ req[t - 1].pc = "done"
  /\ Running(t - 1)
  /\ task[t - 1].scopes = <<>>
  /\ task[t].st = "idle"
  /\ task[t].on = 0
  /\ task' = [task EXCEPT ![t] = [task[t - 1] EXCEPT !.last = NoEvent],
                          ![t - 1] = [NewTask EXCEPT !.st = "done"]]
  /\ obs' = [obs EXCEPT ![t - 1] = None]
  /\ UNCHANGED <<COUNTER, MACHINE_ID, frame, issued, pureVars, svcVars, tls>>

RequestStep(t, env) ==
  \/ \E th \in Threads : PollRequest(t, th)
  \/ SameTask(t)
  \/ ServiceCall(t, env)
  \/ ServiceCallGenerated(t, env)
  \/ CallInner(t)
  \/ InnerGetBound(t)
  \/ InnerCallReturn(t)
  \/ PollFutureSpan(t)
  \/ PollScope(t)
  \/ Pending(t)
  \/ (req[t].pc = "handling" /\ Yield(t))
  \/ RespondSpan(t)
  \/ DropFuture(t)
  \/ (req[t].pc = "done" /\ Complete(t))

NextRequests == \E t \in Tasks : RequestStep(t, SteadyEnv)

SpecRequests == InitRequests /\ [][NextRequests]_vars

(***************************************************************************)
(* Specification of the composition step of TraceId::new as a pure         *)
(* function: the fields two calls of one process worked with are drawn,    *)
(* any number of calls apart, and both identifiers are composed.           *)
(***************************************************************************)
\* the identifier TraceId::new makes of the fields f
new_id(f) ==
  TraceIdOf(format_id(high_64_of(f.timestamp, f.machine_id),
                      low_64_of(f.counter, f.random_part)))

\* fetched counter values: 0, 1, 2^32 and u64::MAX
FieldCounters == {Zero(16), Zero(15) \o <<1>>, Zero(7) \o <<1>> \o Zero(8), Ones(16)}

\* the values MACHINE_ID can have in the environments explored
MachineIds == {machine_id_init(pid, clock) : pid \in Pids, clock \in ClockSecs}

\* the fields of two calls made in one process: the machine id is shared
FieldPairs ==
  {<<[timestamp |-> timestamp_of(c1), machine_id |-> m, counter |-> n1, random_part |-> r1],
     [timestamp |-> timestamp_of(c2), machine_id |-> m, counter |-> n2, random_part |-> r2]>> :
     c1 \in ClockMillis, c2 \in ClockMillis, m \in MachineIds,
     n1 \in FieldCounters, n2 \in FieldCounters, r1 \in Randoms, r2 \in Randoms}

InitCompose ==
  /\ COUNTER = Zero(16)
  /\ MACHINE_ID = None
  /\ frame = [th \in Threads |-> IdleFrame]
  /\ issued = <<>>
  /\ InitNoTask
  /\ InitNoRequest
  /\ arg \in FieldPairs
  /\ op = "none"
  /\ ret = None
  /\ ret2 = None

\* both identifiers are composed: ret is the pair of them
ComposePair ==
  /\ op = "none"
  /\ ret' = <<new_id(arg[1]), new_id(arg[2])>>
  /\ op' = "compose"
  /\ UNCHANGED <<COUNTER, MACHINE_ID, frame, issued, arg, ret2, ctxVars, svcVars>>

NextCompose == ComposePair

SpecCompose == InitCompose /\ [][NextCompose]_vars

(***************************************************************************)
(* Specification of the effects of the public operations: one task that    *)
(* enters and leaves scopes and calls get_trace_id and TraceId::new, and   *)
(* the constructors applied to a string.                                   *)
(***************************************************************************)
EffectInputs == {LitValid, LitUpper, AllZeroLiteral}

InitEffects ==
  /\ COUNTER = Zero(16)
  /\ MACHINE_ID = None
  /\ frame = [th \in Threads |-> IdleFrame]
  /\ issued = <<>>
  /\ tls = [th \in Threads |-> None]
  /\ task = [t \in Tasks |-> NewTask]
  /\ obs = [t \in Tasks |-> None]
  /\ InitNoRequest
  /\ arg \in EffectInputs
  /\ op = "none"
  /\ ret = None
  /\ ret2 = None

\* the constructors are called with the context in any state
NextEffects ==
  \/ TaskStep(1, SteadyEnv)
  \/ TaskNewStep(1, SteadyEnv)
  \/ Validate
  \/ Revalidate
  \/ Unchecked

SpecEffects == InitEffects /\ [][NextEffects]_vars

(***************************************************************************)
(* Specification of the value with_trace_id returns: one task enters       *)
(* scopes, nested or one after the other, whose bodies suspend, read the   *)
(* binding and finish with a value of their own.                           *)
(***************************************************************************)
\* a variant that returns the default value in place of an error
scope_ready_unwrap_or_default(output) ==
  IF output.ok THEN output ELSE [ok |-> TRUE, val |-> <<>>]

\* the scope future's poll when the body's poll returned Ready(output): the
\* output is handed on as it is
scope_ready(output) == output

\* "test_result"
LitTestResult == <<116, 101, 115, 116, 95, 114, 101, 115, 117, 108, 116>>

\* what the body of task t can finish with: a value that does not depend on
\* the binding, the text of the identifier it reads with get_trace_id, or an
\* error (a body that ends in future.await? on a failed future)
BodyOutputs(t) ==
  {[ok |-> TRUE, val |-> LitTestResult], [ok |-> FALSE, err |-> "inner"]}
  \cup {[ok |-> TRUE, val |-> as_str(tls[th].val)] : th \in {x \in {task[t].on} : tls[x].some}}

\* the body of the innermost scope finishes with an output, arg, and
\* with_trace_id(..).await evaluates to ret
ExitReturning(t) ==
  /\ ExitScope(t)
  /\ \E output \in BodyOutputs(t) :
       /\ arg' = output
       /\ ret' = scope_ready(output)
  /\ op' = "with_trace_id"
  /\ UNCHANGED <<COUNTER, MACHINE_ID, frame, issued, ret2, svcVars>>

NextReturn ==
  \/ \E th \in Threads : Poll(1, th)
  \/ \E trace_id \in Offered(1) : Enter(1, trace_id)
  \/ PollScope(1)
  \/ Pending(1)
  \/ Yield(1)
  \/ ExitReturning(1)
  \/ GetBound(1)

SpecReturn == Init /\ [][NextReturn]_vars

(***************************************************************************)
(* Specification of the polls of with_trace_id(id, body).await under a     *)
(* fair runtime.  with_trace_id awaits the scope future and nothing else,  *)
(* and a poll of the scope future is one call: swap the value in, poll the *)
(* body, swap it back, return what the body's poll returned.  The runtime  *)
(* polls a task that is woken, the task's code polls the scope future it   *)
(* awaits, and a body is assumed to be ready in the end.                   *)
(***************************************************************************)
\* Poll::Pending and Poll::Ready(output)
PollPending == [ready |-> FALSE]

PollReady(output) == [ready |-> TRUE, output |-> output]

\* a variant of the scope future that is never ready, whatever its body is
scope_poll_never(res) == PollPending

\* what a poll of the scope future returns, res being what the poll of its
\* body returned
scope_poll(res) ==
  IF res.ready THEN PollReady(scope_ready(res.output)) ELSE res

\* one poll of the scope future at the active level: the body's poll returns
\* res (arg), the scope's returns ret; a body is ready only when the scopes
\* it entered are over
PollBodyReturning(t, res) ==
  /\ Running(t)
  /\ task[t].active >= 1
  /\ res.ready => task[t].active = Len(task[t].scopes)
  /\ arg' = res
  /\ ret' = scope_poll(res)
  /\ op' = "poll"
  /\ IF scope_poll(res).ready THEN ExitScope(t) ELSE PendingScope(t)
  /\ UNCHANGED <<COUNTER, MACHINE_ID, frame, issued, ret2, svcVars>>

PollBody(t) ==
  /\ Running(t)
  /\ task[t].active >= 1
  /\ \E res \in {PollPending} \cup {PollReady(output) : output \in BodyOutputs(t)} :
       PollBodyReturning(t, res)

\* the body of the scope at level k is ready
BodyCompletes(t, k) ==
  /\ Running(t)
  /\ task[t].active = k
  /\ k >= 1
  /\ \E output \in BodyOutputs(t) : PollBodyReturning(t, PollReady(output))

\* the code at level k - 1 polls the scope future it awaits
PollScopeAt(t, k) == task[t].active = k - 1 /\ PollScope(t)

NextAwait ==
  \/ \E th \in Threads : Poll(1, th)
  \/ \E trace_id \in Offered(1) : Enter(1, trace_id)
  \/ PollScope(1)
  \/ PollBody(1)
  \/ Yield(1)
  \/ GetBound(1)

FairAwait ==
  /\ WF_vars(\E th \in Threads : Poll(1, th))
  /\ \A k \in 1..MaxDepth : SF_vars(PollScopeAt(1, k))
  /\ \A k \in 1..MaxDepth : SF_vars(BodyCompletes(1, k))

SpecAwait == Init /\ [][NextAwait]_vars /\ FairAwait

(***************************************************************************)
(* Specification of the initialiser of MACHINE_ID as a pure function of    *)
(* the process id and of the clock read: seconds since the epoch as        *)
(* Duration::as_secs gives them (u64), or the failure of duration_since.   *)
(***************************************************************************)
\* 2^32 + SecsNow: a clock past the year 2106, when the seconds no longer
\* fit in 32 bits
SecsFar == Zero(7) \o <<1>> \o <<6, 9, 0, 12, 7, 10, 0, 0>>

\* clock reads: a failure, the epoch itself, now, past 2106, and u64::MAX
StartClocks == {None, Some(Zero(16)), Some(SecsNow), Some(SecsFar), Some(Ones(16))}

\* process ids: those of the other specifications, 0, u32::MAX, and the ids
\* with one hex digit set
StartPids ==
  Pids \cup {Zero(8), Ones(8)}
  \cup {[i \in 1..8 |-> IF i = p THEN c ELSE 0] : p \in 1..8, c \in {1, 8, 15}}

InitMachineId ==
  /\ COUNTER = Zero(16)
  /\ MACHINE_ID = None
  /\ frame = [th \in Threads |-> IdleFrame]
  /\ issued = <<>>
  /\ InitNoTask
  /\ InitNoRequest
  /\ arg \in StartPids \X StartClocks
  /\ op = "none"
  /\ ret = None
  /\ ret2 = None

\* the first access to MACHINE_ID runs the initialiser in the process whose
\* id and clock read are arg
ForceFirst ==
  /\ ~MACHINE_ID.some
  /\ MACHINE_ID' = Some(machine_id_init(arg[1], arg[2]))
  /\ op' = "MACHINE_ID"
  /\ UNCHANGED <<COUNTER, frame, issued, arg, ret, ret2, ctxVars, svcVars>>

NextMachineId == ForceFirst

SpecMachineId == InitMachineId /\ [][NextMachineId]_vars

(***************************************************************************)
(* Properties.                                                             *)
(***************************************************************************)
LowerHexChars == (48..57) \cup (97..102)

\* the textual invariant of an identifier: 32 characters, all in [0-9a-f],
\* not 32 zeros
WellFormedText(s) ==
  /\ Len(s) = 32
  /\ \A i \in 1..Len(s) : s[i] \in LowerHexChars
  /\ \E i \in 1..Len(s) : s[i] # 48

\* C1: every identifier TraceId::new returns has a text of 32 characters of
\* [0-9a-f] that is not 32 zeros, and from_string_validated accepts that text.
C1_GeneratedWellFormed ==
  \A k \in 1..Len(issued) :
    /\ WellFormedText(as_str(issued[k].id))
    /\ from_string_validated(as_str(issued[k].id)).some

\* C2: from_string_validated(s) is None exactly when s has not 32 characters,
\* or has a character outside [0-9a-f], or is 32 zeros; otherwise it is Some
\* of an identifier whose text is s itself.
C2_ValidateIffWellFormed ==
  op = "from_string_validated" =>
    /\ (ret = None) <=> ~WellFormedText(arg)
    /\ WellFormedText(arg) => (ret.some /\ as_str(ret.val) = arg)

\* an accepted input that mixes digits and letters
C2_Witness ==
  /\ op = "from_string_validated"
  /\ ret.some
  /\ \E i, j \in 1..Len(arg) : arg[i] = 102 /\ arg[j] = 57

\* C3: a get_trace_id call made inside with_trace_id(A, body) returns A, read
\* from the binding; a call made after with_trace_id has returned, with no
\* enclosing scope, takes the fallback and does not return A.
C3_ScopeBindsThenReleases ==
  \A t \in DOMAIN obs :
    obs[t].some =>
      LET o == obs[t].val
      IN /\ o.level >= 1 => (~o.fresh /\ Some(o.val) = o.binding)
         /\ (o.level = 0 /\ o.after.ev = "exit") => (o.fresh /\ o.val # o.after.id)

\* a call right after the outermost scope, which bound an identifier issued
\* by TraceId::new, has returned
C3_Witness ==
  \E t \in DOMAIN obs :
    /\ obs[t].some
    /\ obs[t].val.level = 0
    /\ obs[t].val.after.ev = "exit"
    /\ \E k \in 1..Len(issued) : issued[k].id = obs[t].val.after.id

\* C4: scopes nest as a stack: inside an inner scope get_trace_id returns the
\* inner identifier, and right after the inner scope has exited it returns the
\* binding that was visible when the inner scope was entered (the outer
\* identifier, or the fallback if there was none).
C4_NestingIsAStack ==
  \A t \in DOMAIN obs :
    obs[t].some =>
      LET o == obs[t].val
      IN /\ o.level >= 2 => o.val = task[t].scopes[o.level].bound
         /\ o.after.ev = "exit" =>
              IF o.level = 0 THEN o.fresh
              ELSE ~o.fresh /\ o.val = task[t].scopes[o.level].bound

\* a call in the outer scope right after an inner scope with another
\* identifier has exited
C4_Witness ==
  \E t \in DOMAIN obs :
    /\ obs[t].some
    /\ obs[t].val.level = 1
    /\ obs[t].val.after.ev = "exit"
    /\ obs[t].val.after.id # obs[t].val.val

\* C5: with several tasks scheduled concurrently, each in its own
\* with_trace_id scope and each suspending, a task's get_trace_id returns the
\* identifier of its own scope, before and after the suspension, and never the
\* identifier of another task's request.
C5_TasksIsolated ==
  \A t \in DOMAIN obs :
    (obs[t].some /\ obs[t].val.level >= 1) =>
      /\ Some(obs[t].val.val) = obs[t].val.binding
      /\ \A u \in DOMAIN obs : u # t => obs[t].val.val # InboundId(u)

\* two tasks polled at the same time on two workers, each in its own scope,
\* one of them resumed after a suspension and just returned from get_trace_id
C5_Witness ==
  \E t, u \in DOMAIN obs :
    /\ t # u
    /\ task[t].st = "polling" /\ task[u].st = "polling"
    /\ task[t].active >= 1 /\ task[u].active >= 1
    /\ task[t].scopes[1].bound # task[u].scopes[1].bound
    /\ obs[t].some /\ obs[t].val.resumed
    /\ obs[u].some

\* C6: a body that suspended and is resumed on another worker thread still
\* reads the identifier of its scope.
C6_BindingFollowsTask ==
  \A t \in DOMAIN obs :
    (obs[t].some /\ obs[t].val.moved) =>
      (~obs[t].val.fresh /\ Some(obs[t].val.val) = obs[t].val.binding)

\* a call after the body was resumed on another worker, while another task
\* is being polled on the worker the body ran on before
C6_Witness ==
  \E t, u \in DOMAIN obs :
    /\ obs[t].some /\ obs[t].val.moved
    /\ u # t /\ task[u].st = "polling" /\ task[u].active >= 1

\* the bindings held somewhere (thread cells and scope slots) and the scopes
\* that are alive, counted per identifier
HeldCount(id) ==
  Cardinality({th \in Threads : tls[th] = Some(id)})
  + Cardinality({x \in (DOMAIN task) \X (1..MaxDepth) :
                   x[2] <= Len(task[x[1]].scopes) /\ task[x[1]].scopes[x[2]].slot = Some(id)})

LiveCount(id) ==
  Cardinality({x \in (DOMAIN task) \X (1..MaxDepth) :
                 x[2] <= Len(task[x[1]].scopes) /\ task[x[1]].scopes[x[2]].bound = id})

KnownIds == {InboundId(t) : t \in DOMAIN task} \cup {SharedId} \cup IssuedIds

\* C7: when suspended scopes are cancelled, the cancelling code sees the
\* binding it had before (its own scope's identifier, or none), and no
\* binding of a cancelled scope remains in any thread cell or slot.
C7_CancelRestores ==
  \A t \in DOMAIN task :
    (task[t].st = "polling" /\ task[t].last.ev = "cancel") =>
      /\ tls[task[t].on] = Binding(t)
      /\ \A id \in KnownIds : HeldCount(id) = LiveCount(id)
      /\ obs[t].some =>
           IF obs[t].val.level = 0 THEN obs[t].val.fresh
           ELSE Some(obs[t].val.val) = obs[t].val.binding

\* a call in the outer scope right after the suspended inner scope, bound to
\* another identifier, was cancelled
C7_Witness ==
  \E t \in DOMAIN task :
    /\ task[t].st = "polling"
    /\ task[t].last.ev = "cancel"
    /\ obs[t].some
    /\ obs[t].val.level = 1
    /\ obs[t].val.val # task[t].last.id

\* C8: with no binding active get_trace_id returns a freshly generated
\* identifier that from_string_validated accepts, leaves the caller unbound,
\* and returns a different identifier on the next such call.
C8_UnboundFallback ==
  \A t \in DOMAIN obs :
    (obs[t].some /\ obs[t].val.level = 0) =>
      /\ obs[t].val.fresh
      /\ from_string_validated(as_str(obs[t].val.val)).some
      /\ tls[task[t].on] = None
      /\ obs[t].val.before.some => obs[t].val.before.val # obs[t].val.val

\* C9: the identifiers returned by the TraceId::new calls of one process, made
\* sequentially or concurrently, have pairwise distinct texts.
C9_IssuedPairwiseDistinct ==
  \A i, j \in 1..Len(issued) :
    i # j => as_str(issued[i].id) # as_str(issued[j].id)

\* two calls that overlapped in time, read the same clock value and drew the
\* same random value
C9_Witness ==
  /\ Len(issued) >= 2
  /\ issued[1].timestamp = issued[2].timestamp
  /\ issued[1].random_part = issued[2].random_part
  /\ issued[1].counter = WrappingInc(issued[2].counter)

\* C10: validating the text of an identifier that from_string_validated
\* returned gives that same identifier again.
C10_ValidateIdempotent ==
  op = "revalidated" => ret2 = ret

C10_Witness ==
  /\ op = "revalidated"
  /\ ret2.some
  /\ as_str(ret2.val) = LitValid

\* C11: a task spawned from inside with_trace_id(A, body) that has not entered
\* a scope of its own is unbound: its get_trace_id takes the fallback and does
\* not return A; and no task (the spawning one or a sibling) ever reads the
\* identifier of a scope that another task entered.
C11_SpawnedStartsUnbound ==
  \A t \in DOMAIN obs :
    obs[t].some =>
      LET o == obs[t].val
      IN /\ o.after.ev = "spawn" =>
              /\ o.level = 0
              /\ o.fresh
              /\ o.after.under.some => o.val # o.after.under.val
         /\ (t # Root /\ o.level = 0) => o.fresh
         /\ \A u \in DOMAIN task : \A k \in 1..MaxDepth :
              (u # t /\ k <= Len(task[u].scopes)) => o.val # task[u].scopes[k].bound

\* the first get_trace_id of a task spawned under a binding has returned,
\* while the spawning scope is still alive and a sibling is being polled
\* inside a scope of its own
C11_Witness ==
  \E c, s \in DOMAIN obs :
    /\ c # s /\ c # Root /\ s # Root
    /\ obs[c].some
    /\ obs[c].val.after.ev = "spawn"
    /\ obs[c].val.after.under.some
    /\ task[Root].scopes # <<>>
    /\ task[s].st = "polling" /\ task[s].active >= 1

\* C12: from_string_unchecked applies none of the checks: for every string,
\* also one that from_string_validated rejects, it returns an identifier whose
\* text is that string exactly.
C12_UncheckedKeepsText ==
  op = "from_string_unchecked" => as_str(ret) = arg

\* the constructor was given a text that is too long and has a character
\* outside the alphabet
C12_Witness ==
  /\ op = "from_string_unchecked"
  /\ Len(arg) > 32
  /\ \E i \in 1..Len(arg) : arg[i] \notin LowerHexChars
  /\ from_string_validated(arg) = None

\* the calls of TraceId::new whose clock read failed: the readings of a
\* working clock in ClockMillis all have a non-zero millisecond count
ClockFailed(timestamp) == timestamp = Zero(16)

\* C13: when the clock read fails inside TraceId::new the timestamp is zero,
\* the call still advances COUNTER by one and returns, and the identifier it
\* returns is well formed: 32 characters of [0-9a-f], not 32 zeros.
C13_ClockFailureStillWellFormed ==
  /\ [][\A th \in Threads :
          (frame[th].pc = "idle" /\ frame'[th].pc = "fetched"
             /\ ClockFailed(frame'[th].timestamp))
            => COUNTER' = WrappingInc(COUNTER)]_vars
  /\ [](\A k \in 1..Len(issued) :
          ClockFailed(issued[k].timestamp) => WellFormedText(as_str(issued[k].id)))

\* what from_string_validated makes of a header value: None if the value is
\* not text or is not a valid identifier
ValidatedHeader(headers) ==
  IF headers.some /\ to_str(headers.val).some
    THEN from_string_validated(to_str(headers.val).val)
    ELSE None

\* C14: an x-trace-id value that from_string_validated would reject (or that
\* is not text) is never the identifier of the request, and the identifier
\* extract_or_generate_trace_id returns passes from_string_validated, for
\* every header value and every custom generator.
C14_InvalidHeaderNeverUsed ==
  \A r \in DOMAIN req :
    req[r].pc = "chosen" =>
      /\ ~ValidatedHeader(req[r].headers).some => req[r].source # "header"
      /\ from_string_validated(as_str(req[r].trace_id.val)).some

\* the phases of a request in which extract_or_generate_trace_id has returned
Chosen == {"chosen", "inner_call", "future", "handling", "done"}

C16_OneIdentifierPerRequest ==
  \A t \in DOMAIN req :
    /\ req[t].pc \in {"inner_call", "future", "handling", "done"} =>
         req[t].extensions = req[t].trace_id
    /\ (req[t].pc = "handling" /\ obs[t].some) =>
         (~obs[t].val.fresh /\ obs[t].val.val = req[t].trace_id.val)
    /\ (req[t].pc = "done" /\ req[t].inner.ok /\ req[t].config.enable_response_header) =>
         /\ req[t].response.val.ok
         /\ req[t].response.val.header = Some(as_bytes(as_str(req[t].trace_id.val)))

\* a request whose identifier was generated is answered with it, in place of
\* the header the inner service had set
C16_Witness ==
  \E t \in DOMAIN req :
    /\ req[t].pc = "done"
    /\ req[t].source = "new"
    /\ req[t].config.enable_response_header
    /\ req[t].inner.ok /\ req[t].inner.header.some
    /\ req[t].response.val.header # req[t].inner.header

\* C17: the identifier is bound around the whole of the inner service's
\* handling: every get_trace_id the inner service calls, from the call of
\* the inner service to its response, returns the request's identifier.
C17_BoundAroundInnerService ==
  \A t \in DOMAIN req :
    (req[t].pc \in {"inner_call", "handling"} /\ obs[t].some) =>
      obs[t].val.val = req[t].trace_id.val

\* C18: with a custom generator and no usable x-trace-id header, an output
\* of the generator that from_string_validated accepts is the request's
\* identifier, verbatim; an output it rejects is discarded for the result of
\* TraceId::new; from_string_validated accepts the identifier either way.
C18_GeneratorFallback ==
  \A r \in DOMAIN req :
    (req[r].pc = "chosen" /\ req[r].generator.some
       /\ ~ValidatedHeader(req[r].headers).some) =>
      /\ req[r].consulted
      /\ IF from_string_validated(req[r].generator.val).some
           THEN req[r].source = "generator"
                /\ as_str(req[r].trace_id.val) = req[r].generator.val
           ELSE req[r].source = "new"
                /\ req[r].trace_id.val = issued[Len(issued)].id
      /\ from_string_validated(as_str(req[r].trace_id.val)).some

\* C19: with enable_response_header = false no x-trace-id header is added to
\* the response, and the handler's get_trace_id still returns the request's
\* identifier.
C19_NoHeaderWhenDisabled ==
  \A t \in DOMAIN req :
    ~req[t].config.enable_response_header =>
      /\ req[t].pc = "done" => req[t].response.val = req[t].inner
      /\ (req[t].pc = "handling" /\ obs[t].some) =>
           (~obs[t].val.fresh /\ obs[t].val.val = req[t].trace_id.val)
      /\ req[t].pc \in {"inner_call", "future", "handling", "done"} =>
           req[t].extensions = req[t].trace_id

\* a request without header is answered by a successful inner service with
\* the response header disabled
C19_Witness ==
  \E t \in DOMAIN req :
    /\ ~req[t].config.enable_response_header
    /\ req[t].config.enable_span
    /\ req[t].headers = None
    /\ req[t].pc = "done"
    /\ req[t].response.val.ok

\* C20: the same request, handled with and without enable_span, gets its
\* identifier from the same source (the same identifier unless it is freshly
\* generated), has it bound for the handler, and gets the same x-trace-id
\* response header: present or absent alike, and each its own identifier.
C20_ModesEquivalent ==
  \A t, u \in DOMAIN req :
    (req[t].config.enable_span /\ ~req[u].config.enable_span) =>
      /\ (req[t].pc \in Chosen /\ req[u].pc \in Chosen) =>
           /\ req[t].source = req[u].source
           /\ req[t].source # "new" => req[t].trace_id = req[u].trace_id
      /\ (req[u].pc = "handling" /\ obs[u].some) =>
           (~obs[u].val.fresh /\ obs[u].val.val = req[u].trace_id.val)
      /\ (req[t].pc = "done" /\ req[u].pc = "done") =>
           /\ req[t].response.val.ok = req[u].response.val.ok
           /\ req[t].response.val.header.some = req[u].response.val.header.some
           /\ \A x \in {t, u} :
                req[x].response.val.header \in
                  {req[x].inner.header, Some(as_bytes(as_str(req[x].trace_id.val)))}
           /\ (req[t].response.val.header = req[t].inner.header)
                <=> (req[u].response.val.header = req[u].inner.header)
      /\ req[t].pc \in {"handling", "done"} => req[t].span.some
      /\ req[u].span = None

\* both have been answered with their identifier in the response header, one
\* with a span and one without
C20_Witness ==
  \E t, u \in DOMAIN req :
    /\ req[t].config.enable_span /\ ~req[u].config.enable_span
    /\ req[t].pc = "done" /\ req[u].pc = "done"
    /\ req[t].response.val.header = Some(as_bytes(as_str(req[t].trace_id.val)))
    /\ req[u].response.val.header = Some(as_bytes(as_str(req[u].trace_id.val)))

\* w advanced n times by one, wrapping
RECURSIVE Advance(_, _)
Advance(w, n) == IF n = 0 THEN w ELSE Advance(WrappingInc(w), n - 1)

\* the counter values fetched by the calls of TraceId::new begun so far
FetchedValues ==
  {issued[k].counter : k \in 1..Len(issued)}
  \cup {frame[th].counter : th \in {x \in Threads : frame[x].pc = "fetched"}}

\* C21: after N calls of TraceId::new have made their fetch_add, by any
\* threads in any interleaving, COUNTER is its starting value plus N (mod
\* 2^64) and the calls fetched the N consecutive values from the starting
\* value on, each exactly once.
C21_CounterAdvancedAtomically ==
  \E start \in CounterStarts :
    /\ COUNTER = Advance(start, Begun)
    /\ FetchedValues = {Advance(start, n) : n \in 0..(Begun - 1)}
    /\ Cardinality(FetchedValues) = Begun

\* two calls are in progress at the same time on two threads, both past
\* their fetch_add
C21_Witness ==
  \E th1, th2 \in Threads :
    /\ th1 # th2
    /\ frame[th1].pc = "fetched"
    /\ frame[th2].pc = "fetched"
    /\ frame[th1].counter # frame[th2].counter

\* the counter field of the text of an identifier: characters 17 to 24
CounterField(id) == SubSeq(as_str(id), 17, 24)

\* the n low hex digits of a word, as lower-case text
LowHex(w, n) == [i \in 1..n |-> HexDigit(w[Len(w) - n + i])]

\* C22: a call of TraceId::new that fetches u64::MAX leaves COUNTER at 0 and
\* returns a well-formed identifier; and the counter field of every
\* identifier is the fetched value modulo 2^32, so that the call after the one
\* that fetched a value ending in 0xFFFFFFFF has the counter field 00000000.
C22_CounterWrapsSilently ==
  /\ [][\A th \in Threads :
          (frame[th].pc = "idle" /\ frame'[th].pc = "fetched"
             /\ frame'[th].counter = Ones(16))
            => COUNTER' = Zero(16)]_vars
  /\ [](\A k \in 1..Len(issued) :
          /\ issued[k].counter = Ones(16) => WellFormedText(as_str(issued[k].id))
          /\ CounterField(issued[k].id) = LowHex(issued[k].counter, 8))

\* the call that fetched u64::MAX and the call after it, which fetched 0,
\* have both returned: their counter fields are ffffffff and 00000000
C22_Witness ==
  /\ COUNTER = Zero(15) \o <<1>>
  /\ \E i, j \in 1..Len(issued) :
       /\ issued[i].counter = Ones(16)
       /\ CounterField(issued[i].id) = [n \in 1..8 |-> 102]
       /\ issued[j].counter = Zero(16)
       /\ CounterField(issued[j].id) = [n \in 1..8 |-> 48]

\* C23: the text of an identifier TraceId::new returns is, from left to
\* right, the 12 hex digits of the timestamp modulo 2^48, the 4 hex digits of
\* the machine id, the 8 hex digits of the fetched counter modulo 2^32 and the
\* 8 hex digits of the random value: 32 characters, no field running into
\* another.
C23_FieldsComposeTheText ==
  \A k \in 1..Len(issued) :
    as_str(issued[k].id) =
      LowHex(issued[k].timestamp, 12) \o LowHex(issued[k].machine_id, 4)
      \o LowHex(issued[k].counter, 8) \o LowHex(issued[k].random_part, 8)

\* an identifier made of a timestamp that exceeds 48 bits, a counter that
\* exceeds 32 bits, and a machine id and a random value that are not zero
C23_Witness ==
  \E k \in 1..Len(issued) :
    /\ issued[k].timestamp = Truncate(MillisFar, 16)
    /\ issued[k].counter = Zero(7) \o <<1>> \o Zero(8)
    /\ issued[k].machine_id # Zero(4)
    /\ issued[k].random_part # Zero(8)

\* C24: two identifiers of one process have the same text only if their
\* timestamps modulo 2^48, their counter values modulo 2^32 and their random
\* values are all equal: a difference in one of the three fields makes the
\* texts differ.
C24_EqualTextOnlyIfEqualFields ==
  op = "compose" =>
    (as_str(ret[1]) = as_str(ret[2]) =>
       /\ Truncate(arg[1].timestamp, 12) = Truncate(arg[2].timestamp, 12)
       /\ Truncate(arg[1].counter, 8) = Truncate(arg[2].counter, 8)
       /\ arg[1].random_part = arg[2].random_part)

\* two identifiers with the same text whose timestamps differ above bit 47
\* and whose counter values are 2^32 apart
C24_Witness ==
  /\ op = "compose"
  /\ as_str(ret[1]) = as_str(ret[2])
  /\ arg[1].timestamp # arg[2].timestamp
  /\ arg[1].counter # arg[2].counter

\* the machine field of the text of an identifier: characters 13 to 16
MachineField(id) == SubSeq(as_str(id), 13, 16)

\* C25: MACHINE_ID is initialised once, by the first call that reads it, and
\* never changes afterwards: every identifier of the process, whichever
\* thread made it and whenever, has the value of MACHINE_ID as its machine
\* field.
C25_MachineIdInitialisedOnce ==
  /\ [][MACHINE_ID.some => MACHINE_ID' = MACHINE_ID]_vars
  /\ [](\A k \in 1..Len(issued) :
          /\ MACHINE_ID.some
          /\ issued[k].machine_id = MACHINE_ID.val
          /\ MachineField(issued[k].id) = LowHex(MACHINE_ID.val, 4))

\* two calls that were in progress together when MACHINE_ID was first read
\* (the one that fetched the later counter value returned first) have both
\* returned, with a machine id that is not zero
C25_Witness ==
  /\ Len(issued) >= 2
  /\ issued[2].counter # issued[1].counter
  /\ issued[1].counter = WrappingInc(issued[2].counter)
  /\ MACHINE_ID.some
  /\ MACHINE_ID.val # Zero(4)
  /\ MachineField(issued[1].id) = MachineField(issued[2].id)

\* a call of TraceId::new, made directly or by get_trace_id, does its
\* fetch_add in this step
FetchStep == \E th \in Threads : frame[th].pc = "idle" /\ frame'[th].pc = "fetched"

\* a call of TraceId::new returns in this step
ReturnStep == \E th \in Threads : frame[th].pc = "fetched" /\ frame'[th].pc = "idle"

\* a constructor (from_string_validated, from_string_unchecked) or as_str
\* followed by from_string_validated returns in this step
ConstructorStep == op' # op

\* a get_trace_id call that found a binding returns in this step
GetBoundStep ==
  \E t \in DOMAIN obs : obs'[t] # obs[t] /\ obs'[t].some /\ ~obs'[t].val.fresh

\* C26: a call of TraceId::new, direct or as the fallback of get_trace_id,
\* advances COUNTER by exactly one over its two steps and changes no binding
\* and no value MACHINE_ID already has (the first call gives MACHINE_ID its
\* value); from_string_validated, from_string_unchecked, as_str and
\* get_trace_id with a binding leave COUNTER, MACHINE_ID and every binding as
\* they are; and nothing else changes COUNTER or MACHINE_ID.
C26_OnlyGenerationMutates ==
  /\ [][FetchStep =>
          /\ COUNTER' = WrappingInc(COUNTER)
          /\ UNCHANGED <<MACHINE_ID, tls, task>>]_vars
  /\ [][ReturnStep =>
          /\ UNCHANGED <<COUNTER, tls, task>>
          /\ MACHINE_ID.some => MACHINE_ID' = MACHINE_ID]_vars
  /\ [][ConstructorStep => UNCHANGED <<COUNTER, MACHINE_ID, tls, task>>]_vars
  /\ [][GetBoundStep => UNCHANGED <<COUNTER, MACHINE_ID, tls, task>>]_vars
  /\ [][COUNTER' # COUNTER => FetchStep]_vars
  /\ [][MACHINE_ID' # MACHINE_ID => (ReturnStep /\ MACHINE_ID = None)]_vars

\* two identifiers were generated, a constructor and as_str were applied, and
\* the task, inside a scope, has just read its binding with get_trace_id
C26_Witness ==
  /\ Len(issued) = 2
  /\ COUNTER = Zero(15) \o <<2>>
  /\ op = "revalidated"
  /\ task[1].st = "polling"
  /\ task[1].active >= 1
  /\ obs[1].some
  /\ ~obs[1].val.fresh
  /\ tls[task[1].on] = Some(obs[1].val.val)

\* the six orders in which the three checks can be made
CheckOrders ==
  {o \in [1..3 -> {"length", "alphabet", "zero"}] : \A i, j \in 1..3 : i # j => o[i] # o[j]}

\* C27: for every string, making the three checks of from_string_validated
\* in any of the six orders, stopping at the first that fails, gives what
\* from_string_validated returns: None in the same cases, and otherwise the
\* identifier with the same text.
C27_CheckOrderIrrelevant ==
  op = "from_string_validated" =>
    \A order \in CheckOrders : validated_in_order(order, arg) = ret

\* a string that fails two checks at once (too long, and with a character
\* outside the alphabet), so that different orders stop at different checks
C27_Witness ==
  /\ op = "from_string_validated"
  /\ check_fails("length", arg)
  /\ check_fails("alphabet", arg)
  /\ ~check_fails("zero", arg)
  /\ ret = None

\* C28: whenever extract_or_generate_trace_id takes the identifier from the
\* header, the text passed is_valid_trace_id_fast and was handed to
\* from_string_unchecked, and from_string_validated accepts that text too.
C28_FastCheckImpliesValid ==
  \A r \in DOMAIN req :
    (req[r].pc = "chosen" /\ req[r].source = "header") =>
      LET id == to_str(req[r].headers.val).val
      IN /\ is_valid_trace_id_fast(id)
         /\ req[r].trace_id = Some(from_string_unchecked(id))
         /\ from_string_validated(id).some

\* C29: with_trace_id(id, body) evaluates to exactly what body finished
\* with, a success or an error, whatever identifier is bound.
C29_ReturnsBodyValue ==
  op = "with_trace_id" => ret = arg

\* an inner scope, bound to another identifier than the outer one, has
\* returned the error its body finished with to the body of the outer scope
C29_Witness ==
  /\ op = "with_trace_id"
  /\ ~arg.ok
  /\ ~ret.ok
  /\ task[1].st = "polling"
  /\ task[1].active >= 1
  /\ task[1].last.ev = "exit"
  /\ task[1].last.id # task[1].scopes[task[1].active].bound

\* the counter values a and b differ, by less than 2^32 one way or the other
\* (modulo 2^64): fewer than 2^32 fetches lie between them
LessThan2To32Apart(a, b) ==
  /\ a # b
  /\ \/ SubSeq(WrappingSub(a, b), 1, 8) = Zero(8)
     \/ SubSeq(WrappingSub(b, a), 1, 8) = Zero(8)

\* C30: two calls of TraceId::new of one process whose fetched counter
\* values are less than 2^32 apart return identifiers with different texts,
\* whatever the clock read (failed or not) and the random value of each call,
\* and however the calls of the threads interleave.
C30_NearbyCallsDiffer ==
  \A i, j \in 1..Len(issued) :
    LessThan2To32Apart(issued[i].counter, issued[j].counter)
      => as_str(issued[i].id) # as_str(issued[j].id)

\* two calls whose clock reads both failed and whose random values are equal,
\* the one having fetched 2^32 - 1 and the other 2^32: the counter field
\* wraps to zero between them
C30_Witness ==
  \E i, j \in 1..Len(issued) :
    /\ issued[i].counter = Zero(8) \o Ones(8)
    /\ issued[j].counter = Zero(7) \o <<1>> \o Zero(8)
    /\ LessThan2To32Apart(issued[i].counter, issued[j].counter)
    /\ ClockFailed(issued[i].timestamp)
    /\ ClockFailed(issued[j].timestamp)
    /\ issued[i].random_part = issued[j].random_part

\* the scopes that are suspended: entered and not exited, and not being
\* polled now.  Each is given as <<task, level>>.
SuspendedScopes ==
  {x \in (DOMAIN task) \X (1..MaxDepth) :
     /\ x[2] <= Len(task[x[1]].scopes)
     /\ (task[x[1]].st # "polling" \/ x[2] > task[x[1]].active)}

\* task t was last polled, or is being polled, on the worker where the
\* scope x was last polled
SameWorker(t, x) == task[t].on # 0 /\ task[x[1]].on = task[t].on

\* C31: whatever scopes are suspended, the cell that get_trace_id reads in a
\* task that is being polled holds the binding of the scope the task's code
\* is in, or nothing if it is in none (try_with fails: the caller is unbound),
\* and a get_trace_id call returns that binding: never the identifier of a
\* suspended scope, be it a scope of the same task or of a task that was
\* polled on the same worker.
C31_SuspendedBindingInvisible ==
  \A t \in DOMAIN task :
    task[t].st = "polling" =>
      /\ tls[task[t].on] = Binding(t)
      /\ \A x \in SuspendedScopes :
           Some(task[x[1]].scopes[x[2]].bound) # Binding(t)
             => tls[task[t].on] # Some(task[x[1]].scopes[x[2]].bound)
      /\ obs[t].some =>
           IF Binding(t).some
             THEN ~obs[t].val.fresh /\ Some(obs[t].val.val) = Binding(t)
             ELSE obs[t].val.fresh

\* a task is polled in the code around its own suspended scope (a sibling
\* branch), on the worker where the scope of another task was suspended
C31_Witness ==
  \E t, u \in DOMAIN task :
    /\ t # u
    /\ task[t].st = "polling"
    /\ task[t].active = 0
    /\ <<t, 1>> \in SuspendedScopes
    /\ <<u, 1>> \in SuspendedScopes
    /\ task[u].st = "idle"
    /\ SameWorker(t, <<u, 1>>)
    /\ ~tls[task[t].on].some

\* the requests whose future has completed or was dropped
Finished == {u \in DOMAIN req : req[u].pc = "done"}

C33_InnerErrorPassedOn ==
  \A t \in DOMAIN req :
    (req[t].pc = "done" /\ ~req[t].inner.ok) =>
      /\ req[t].response = Some(req[t].inner)
      /\ ~req[t].response.val.ok
      /\ ~req[t].response.val.header.some
      /\ task[t].scopes = <<>>
      /\ task[t].st = "polling" => ~tls[task[t].on].some

\* the inner service failed for a request with a valid header, handled with
\* the response header enabled, and the poll that returned the error is
\* not over yet
C33_Witness ==
  \E t \in DOMAIN req :
    /\ req[t].pc = "done"
    /\ ~req[t].inner.ok
    /\ req[t].config.enable_response_header
    /\ req[t].config.enable_span
    /\ req[t].source = "header"
    /\ task[t].st = "polling"
    /\ task[t].last.ev = "exit"

\* a step in which the custom generator is invoked for request r
GeneratorStep(r) == ~req[r].consulted /\ req'[r].consulted

\* C34: for one request, the custom generator is invoked in at most one
\* step, the one in which extract_or_generate_trace_id leaves the header,
\* and only if there is no header or from_string_validated rejects it;
\* TraceId::new is called at most once (COUNTER is at most one past its value
\* at entry and at most one identifier is issued), and not at all when the
\* header or a valid output of the generator was chosen.
C34_GeneratorsCalledAtMostOnce ==
  /\ [](\A r \in DOMAIN req :
          /\ req[r].consulted =>
               /\ req[r].generator.some
               /\ ~ValidatedHeader(req[r].headers).some
               /\ req[r].pc # "received"
          /\ req[r].pc = "received" => issued = <<>>
          /\ req[r].pc # "received" =>
               COUNTER \in {req[r].entry, fetch_add_1(req[r].entry)}
          /\ Len(issued) <= 1
          /\ req[r].pc = "chosen" =>
               /\ req[r].source \in {"header", "generator"} =>
                    COUNTER = req[r].entry /\ issued = <<>>
               /\ req[r].source = "generator" =>
                    /\ req[r].consulted
                    /\ from_string_validated(req[r].generator.val) = req[r].trace_id
               /\ req[r].source = "new" =>
                    /\ COUNTER = fetch_add_1(req[r].entry)
                    /\ Len(issued) = 1)
  /\ [][\A r \in DOMAIN req :
          /\ req'[r].consulted # req[r].consulted =>
               GeneratorStep(r) /\ req[r].pc = "received"
          /\ COUNTER' # COUNTER =>
               req[r].pc = "received" /\ req'[r].pc = "generating"]_vars

\* the generator was invoked for a header that is rejected, its output was
\* rejected too, and TraceId::new made the identifier
C34_Witness ==
  \E r \in DOMAIN req :
    /\ req[r].pc = "chosen"
    /\ req[r].headers = Some(as_bytes(LitUpper))
    /\ req[r].generator = Some(LitInvalidId)
    /\ req[r].consulted
    /\ req[r].source = "new"
    /\ Len(issued) = 1

\* a step in which the body at the active level of task t is ready
BodyReadyStep(t) ==
  /\ task[t].st = "polling"
  /\ task'[t].active < task[t].active
  /\ op' = "poll"
  /\ arg'.ready

\* C35: in the step in which the body is ready with_trace_id is ready too,
\* with the body's output, the scope is gone and the worker's cell holds the
\* binding of the enclosing scope again (it is empty if there is none); and
\* under fair polling, with bodies that are ready in the end, every scope
\* that was entered is left.
C35_CompletesWithBody ==
  /\ [][\A t \in {1} :
          BodyReadyStep(t) =>
            /\ ret' = arg'
            /\ Len(task'[t].scopes) = Len(task[t].scopes) - 1
            /\ task'[t].last = [ev |-> "exit", id |-> Binding(t).val]
            /\ task'[t].st = "polling" /\ task'[t].on = task[t].on
            /\ tls'[task[t].on] =
                 (IF task[t].active = 1 THEN None
                  ELSE Some(task[t].scopes[task[t].active - 1].bound))]_vars
  /\ \A k \in 1..MaxDepth :
       (Len(task[1].scopes) >= k) ~> (Len(task[1].scopes) < k)

\* a nested scope, resumed on another worker after a suspension, has just
\* been left in the poll in which its body was ready
C35_Witness ==
  /\ op = "poll"
  /\ arg.ready
  /\ ret = arg
  /\ task[1].last.ev = "exit"
  /\ task[1].moved
  /\ task[1].active = 1
  /\ Len(task[1].scopes) = 1
  /\ tls[task[1].on] = Some(task[1].scopes[1].bound)

\* the header of request r is text that is_valid_trace_id_fast rejects
FastCheckFails(r) ==
  /\ req[r].headers.some
  /\ to_str(req[r].headers.val).some
  /\ ~is_valid_trace_id_fast(to_str(req[r].headers.val).val)

\* C36: a header text that is_valid_trace_id_fast rejects is rejected by
\* from_string_validated too, so the branch of extract_or_generate_trace_id
\* taken after the fast check fails returns nothing: the identifier of such
\* a request never comes from its header.
C36_FallbackNeverSucceeds ==
  \A r \in DOMAIN req :
    FastCheckFails(r) =>
      /\ ~from_string_validated(to_str(req[r].headers.val).val).some
      /\ ~from_headers(req[r].headers).some
      /\ req[r].pc = "chosen" => req[r].source \in {"generator", "new"}

\* upper-case hex digits in the header: the fast check fails, the full
\* validation is tried, and the identifier is generated
C36_Witness ==
  \E r \in DOMAIN req :
    /\ FastCheckFails(r)
    /\ req[r].headers = Some(as_bytes(LitUpper))
    /\ req[r].pc = "chosen"
    /\ req[r].source = "new"

\* the low 16 bits of pid XOR secs, computed on 64 bits with nothing cut off
\* before the XOR; secs is 0 when the clock read failed
LowBitsOfXor(pid, clock) ==
  Truncate(WordXor(Widen(pid, 16), IF clock.some THEN clock.val ELSE Zero(16)), 4)

\* C37: MACHINE_ID is the low 16 bits of (process id XOR seconds since the
\* epoch), the seconds being 0 when the clock read fails, whether or not the
\* seconds are cut to 32 bits first; with a failed clock it is the low 16
\* bits of the process id.
C37_MachineIdIsLowBitsOfXor ==
  MACHINE_ID.some =>
    /\ MACHINE_ID.val = LowBitsOfXor(arg[1], arg[2])
    /\ Len(MACHINE_ID.val) = 4
    /\ ~arg[2].some => MACHINE_ID.val = Truncate(arg[1], 4)

\* initialised past 2106, when the cut to 32 bits drops a bit of the seconds,
\* in a process whose id has bits above the low 16
C37_Witness ==
  /\ MACHINE_ID.some
  /\ arg[2] = Some(SecsFar)
  /\ Truncate(arg[2].val, 8) # arg[2].val
  /\ arg[1] = Ones(8)
  /\ MACHINE_ID.val # Truncate(arg[1], 4)
====
